---------------------------- MODULE Spec2Model ----------------------------
(***************************************************************************)
(* go-blade: the resolver (ParsedFile.ToTemplateString) and the compile    *)
(* loop of Engine.Load.                                                    *)
(*                                                                         *)
(* Texts are sequences of items.  A "define" item is one                   *)
(*   {{ define "<prefix><name>" }} body {{ end }}                          *)
(* block, its body again a sequence of items; every other item is a piece  *)
(* of template text that names where it comes from: the content of a       *)
(* section, the default of a yield, one pushed fragment, the standalone    *)
(* body of a file.  Whitespace ("\n") between blocks is not represented.   *)
(***************************************************************************)
EXTENDS Integers, Sequences, FiniteSets, TLC

\* ------------------------------------------------------------------ bounds

\* Directives (extends, includes, sections, yields, stacks, push fragments)
\* in the whole files table.
MaxDirectives == 4
\* Extends and include directives in the whole files table.
MaxEdges == 2
\* @push blocks of one file for one stack.
MaxPush == 2
\* Depth of nested ToTemplateString calls before the goroutine stack is
\* taken to be exhausted (only a cycle of extends/include edges gets there).
MaxDepth == 4
\* Characters of a name handed to normalizeName.
MaxLen == 4
\* Calls of normalizeName made on one name, each on the result of the last.
MaxCalls == 2
\* Pieces (directives and stretches of plain text) of one raw template file.
MaxRaw == 4
\* Milliseconds the clock runs for while the engine is reloaded.
MaxClock == 2

\* ------------------------------------------------------------- the universe

FileNames == {"a", "b", "c"}
\* A logical name that no file of the table has.
Ghost == "ghost"
Targets == FileNames \cup {Ghost}
YieldNames == {"title"}
StackNames == {"scripts"}

\* The three reserved name prefixes, as namespaces of define blocks.
yieldNamePrefix == "yield"
stackNamePrefix == "stack"
partialNamePrefix == "include"

\* ------------------------------------------------------------------- texts

DefineItem(prefix, name, body) ==
    [k |-> "define", ns |-> prefix, name |-> name, file |-> "", idx |-> 0,
     body |-> body]

TextItem(kind, file, name, idx) ==
    [k |-> kind, ns |-> "", name |-> name, file |-> file, idx |-> idx,
     body |-> << >>]

Reverse(s) == [i \in 1..Len(s) |-> s[Len(s) + 1 - i]]

Range(s) == {s[i] : i \in 1..Len(s)}

\* A map iteration visits the keys in some order; with the one-name
\* namespaces of this model there is one order.
RECURSIVE KeysInOrder(_)
KeysInOrder(S) ==
    IF S = {} THEN << >>
    ELSE LET x == CHOOSE y \in S : TRUE IN <<x>> \o KeysInOrder(S \ {x})

\* ------------------------------------------------------------------ errors

Nil == [kind |-> "nil", file |-> "", name |-> "", other |-> ""]

Errorf(kind, file, name, other) ==
    [kind |-> kind, file |-> file, name |-> name, other |-> other]

\* ------------------------------------------------------------ parsed files

\* The ParsedFile that parseFile builds for file f, from the directives the
\* raw text holds: e the @extends target ("" for none), inc the @include
\* targets in source order, sec the names of its @section blocks, yld the
\* @yield directives ("plain" without, "default" with a default content),
\* stk the names of its @stack directives, npush the number of @push blocks
\* per stack.
NewParsedFile(f, e, inc, sec, yld, stk, npush) ==
    [Name |-> f,
     Extends |-> e,
     Includes |-> inc,
     Yields |-> [n \in {m \in YieldNames : yld[m] # "none"} |->
                    IF yld[n] = "default" THEN <<TextItem("default", f, n, 0)>>
                    ELSE << >>],
     Sections |-> [n \in sec |-> <<TextItem("section", f, n, 0)>>],
     Stacks |-> stk,
     PushStacks |-> [s \in {t \in StackNames : npush[t] > 0} |->
                    [i \in 1..npush[s] |-> TextItem("push", f, s, i)]],
     StandaloneBody |-> <<TextItem("body", f, "", 0)>>]

\* The block references a piece of template text may hold.  parseFile
\* rewrites every @yield, @stack and @include of the raw text in place to
\* {{ template "<prefix><name>" . }} before it cuts the sections and the
\* pushes out of it, so a reference of file f can sit in the standalone
\* body, in a section or in a pushed fragment of f: each of them is taken to
\* hold all of them.  The default of a yield is cut out of the directive
\* itself and holds none.
References(files, item) ==
    IF item.k \in {"body", "section", "push"}
    THEN {<<yieldNamePrefix, n>> : n \in DOMAIN files[item.file].Yields}
         \cup {<<stackNamePrefix, n>> : n \in files[item.file].Stacks}
         \cup {<<partialNamePrefix, files[item.file].Includes[i]>> :
                    i \in 1..Len(files[item.file].Includes)}
    ELSE {}

\* ---------------------------------------------------------- compile context

\* The context Load builds for one entry point.  FilledYields is the name
\* the resolver knows the filled set by; the struct literal of Load and
\* buildDefaultYieldContent call the same set FilledSections, and the
\* yield-namespace prefix sectionNamePrefix.  Visited is a history field
\* the program does not have: the names of the files ToTemplateString was
\* called on with this context, in call order.  No operation reads it.
NewCompileContext ==
    [Yields |-> << >>, FilledYields |-> {}, Stacks |-> << >>,
     PushStacks |-> << >>, Visited |-> << >>]

\* m[k] = v, adding the key when the map does not have it.
MapSet(m, k, v) == [x \in DOMAIN m \cup {k} |-> IF x = k THEN v ELSE m[x]]

\* m[k], the zero value (an empty slice) when the map does not have the key.
MapSlice(m, k) == IF k \in DOMAIN m THEN m[k] ELSE << >>


\* ---------------------------------------------------------------- resolver

\* What one step of ToTemplateString has reached: the text written to
\* result so far, the shared context as mutated so far, and the error that
\* makes the call return (Nil while there is none).
Step(text, ctx, err) == [text |-> text, ctx |-> ctx, err |-> err]

\* Mutant: the values of the file are appended first one first.
RegisterPushes_InOrder(p, ctx) ==
    [ctx EXCEPT !.PushStacks =
        [s \in DOMAIN ctx.PushStacks \cup DOMAIN p.PushStacks |->
            MapSlice(ctx.PushStacks, s)
            \o (IF s \in DOMAIN p.PushStacks THEN p.PushStacks[s] ELSE << >>)]]

\* for stackName, values := range p.PushStacks: the values of the file are
\* appended to the pending list of the stack, last one first.
RegisterPushes(p, ctx) ==
    [ctx EXCEPT !.PushStacks =
        [s \in DOMAIN ctx.PushStacks \cup DOMAIN p.PushStacks |->
            MapSlice(ctx.PushStacks, s)
            \o (IF s \in DOMAIN p.PushStacks
                THEN Reverse(p.PushStacks[s]) ELSE << >>)]]

\* Mutant: the pending values are written in the order they were appended.
PopStack_InOrder(ctx, name) == MapSlice(ctx.PushStacks, name)

\* "Pop from stack": the pending values of the stack, last one first.  The
\* pending list itself is left as it is.
PopStack(ctx, name) == Reverse(MapSlice(ctx.PushStacks, name))

\* One iteration of for name := range p.Stacks.
EmitStack(p, name, st) ==
    IF name \in DOMAIN st.ctx.Stacks
    THEN Step(st.text, st.ctx,
              Errorf("duplicate stack name", p.Name, name, st.ctx.Stacks[name]))
    ELSE Step(st.text \o <<DefineItem(stackNamePrefix, name, PopStack(st.ctx, name))>>,
              [st.ctx EXCEPT !.Stacks = MapSet(@, name, p.Name)],
              Nil)

RECURSIVE EmitStacksLoop(_, _, _)
EmitStacksLoop(p, names, st) ==
    IF names = << >> \/ st.err # Nil THEN st
    ELSE EmitStacksLoop(p, Tail(names), EmitStack(p, Head(names), st))

EmitStacks(p, st) == EmitStacksLoop(p, KeysInOrder(p.Stacks), st)

\* Mutant: the section is emitted whether or not the name is filled.
EmitSection_IgnoresFilled(p, name, st) ==
    Step(st.text \o <<DefineItem(yieldNamePrefix, name, p.Sections[name])>>,
         [st.ctx EXCEPT !.FilledYields = @ \cup {name}],
         Nil)

\* One iteration of for name, s := range p.Sections.
EmitSection(p, name, st) ==
    IF name \in st.ctx.FilledYields
    THEN st
    ELSE Step(st.text \o <<DefineItem(yieldNamePrefix, name, p.Sections[name])>>,
              [st.ctx EXCEPT !.FilledYields = @ \cup {name}],
              Nil)

RECURSIVE EmitSectionsLoop(_, _, _)
EmitSectionsLoop(p, names, st) ==
    IF names = << >> THEN st
    ELSE EmitSectionsLoop(p, Tail(names), EmitSection(p, Head(names), st))

EmitSections(p, st) == EmitSectionsLoop(p, KeysInOrder(DOMAIN p.Sections), st)

YieldInfo(name, fileName, default) ==
    [Name |-> name, FileName |-> fileName, Default |-> default]

\* Mutant: a second declaration of a yield name replaces the first.
RegisterYield_NoDuplicateCheck(p, name, st) ==
    Step(st.text,
         [st.ctx EXCEPT !.Yields =
             MapSet(@, name, YieldInfo(name, p.Name, p.Yields[name]))],
         Nil)

\* One iteration of for name, defaultValue := range p.Yields.
RegisterYield(p, name, st) ==
    IF name \in DOMAIN st.ctx.Yields
    THEN Step(st.text, st.ctx,
              Errorf("duplicate yield name", p.Name, name,
                     st.ctx.Yields[name].FileName))
    ELSE Step(st.text,
              [st.ctx EXCEPT !.Yields =
                  MapSet(@, name, YieldInfo(name, p.Name, p.Yields[name]))],
              Nil)

RECURSIVE RegisterYieldsLoop(_, _, _)
RegisterYieldsLoop(p, names, st) ==
    IF names = << >> \/ st.err # Nil THEN st
    ELSE RegisterYieldsLoop(p, Tail(names), RegisterYield(p, Head(names), st))

RegisterYields(p, st) == RegisterYieldsLoop(p, KeysInOrder(DOMAIN p.Yields), st)

RECURSIVE ToTemplateString(_, _, _, _)
RECURSIVE RecurseIncludes(_, _, _, _, _)

\* Mutant: a failing call returns what it had written so far.
Return_KeepsText(st) == st

\* What a caller gets back: result.String() and nil, or "" and the error.
\* The context is shared, so what the callee did to it stays.
Return(st) ==
    IF st.err # Nil THEN Step(<< >>, st.ctx, st.err) ELSE st

\* Mutant: a parent that the table does not have is taken as no parent.
RecurseExtends_SkipsMissing(files, p, st, depth) ==
    IF p.Extends = "" \/ p.Extends \notin DOMAIN files THEN st
    ELSE LET r == ToTemplateString(files, files[p.Extends], st.ctx, depth + 1)
         IN  IF r.err # Nil THEN Step(st.text, r.ctx, r.err)
             ELSE Step(st.text \o r.text, r.ctx, Nil)

\* if p.Extends != "": the parent is resolved with the same context and its
\* text is written to result.
RecurseExtends(files, p, st, depth) ==
    IF p.Extends = "" THEN st
    ELSE IF p.Extends \notin DOMAIN files
    THEN Step(st.text, st.ctx,
              Errorf("not found to extends", p.Name, p.Extends, ""))
    ELSE LET r == ToTemplateString(files, files[p.Extends], st.ctx, depth + 1)
         IN  IF r.err # Nil THEN Step(st.text, r.ctx, r.err)
             ELSE Step(st.text \o r.text, r.ctx, Nil)

\* Mutant: the loop resolves the including file where it should resolve
\* the partial.
RecurseInclude_Self(files, p, partialName, st, depth) ==
    IF partialName \notin DOMAIN files
    THEN Step(st.text, st.ctx,
              Errorf("not found to include", p.Name, partialName, ""))
    ELSE LET r == ToTemplateString(files, p, st.ctx, depth + 1)
         IN  IF r.err # Nil THEN Step(st.text, r.ctx, r.err)
             ELSE Step(st.text
                         \o <<DefineItem(partialNamePrefix, partialName, r.text)>>,
                       r.ctx, Nil)

\* One iteration of for _, partialName := range p.Includes.
RecurseInclude(files, p, partialName, st, depth) ==
    IF partialName \notin DOMAIN files
    THEN Step(st.text, st.ctx,
              Errorf("not found to include", p.Name, partialName, ""))
    ELSE LET r == ToTemplateString(files, files[partialName], st.ctx, depth + 1)
         IN  IF r.err # Nil THEN Step(st.text, r.ctx, r.err)
             ELSE Step(st.text
                         \o <<DefineItem(partialNamePrefix, partialName, r.text)>>,
                       r.ctx, Nil)

RecurseIncludes(files, p, names, st, depth) ==
    IF names = << >> \/ st.err # Nil THEN st
    ELSE RecurseIncludes(files, p, Tail(names),
                         RecurseInclude(files, p, Head(names), st, depth), depth)

\* Mutant: the standalone body is written whether or not the file extends.
AppendBody_Always(p, st) == Step(st.text \o p.StandaloneBody, st.ctx, Nil)

\* if p.Extends == "": the standalone body is written to result.
AppendBody(p, st) ==
    IF p.Extends = "" THEN Step(st.text \o p.StandaloneBody, st.ctx, Nil)
    ELSE st

\* The call is recorded in the history field.
Enter(p, ctx) == [ctx EXCEPT !.Visited = Append(@, p.Name)]

\* Mutant: the includes are resolved before the parent.
ToTemplateString_IncludesFirst(files, p, ctx, depth) ==
    IF depth > MaxDepth
    THEN Step(<< >>, ctx, Errorf("stack overflow", p.Name, "", ""))
    ELSE LET s1 == Step(<< >>, RegisterPushes(p, Enter(p, ctx)), Nil)
             s2 == EmitStacks(p, s1)
             s3 == IF s2.err # Nil THEN s2 ELSE EmitSections(p, s2)
             s4 == IF s3.err # Nil THEN s3 ELSE RegisterYields(p, s3)
             s5 == IF s4.err # Nil THEN s4
                   ELSE RecurseIncludes(files, p, p.Includes, s4, depth)
             s6 == IF s5.err # Nil THEN s5 ELSE RecurseExtends(files, p, s5, depth)
             s7 == IF s6.err # Nil THEN s6 ELSE AppendBody(p, s6)
         IN  Return(s7)

\* p.ToTemplateString(ctx), called at recursion depth `depth`.  A call
\* nested deeper than MaxDepth stands for the unbounded recursion that ends
\* with the runtime's fatal stack overflow.
ToTemplateString(files, p, ctx, depth) ==
    IF depth > MaxDepth
    THEN Step(<< >>, ctx, Errorf("stack overflow", p.Name, "", ""))
    ELSE LET s1 == Step(<< >>, RegisterPushes(p, Enter(p, ctx)), Nil)
             s2 == EmitStacks(p, s1)
             s3 == IF s2.err # Nil THEN s2 ELSE EmitSections(p, s2)
             s4 == IF s3.err # Nil THEN s3 ELSE RegisterYields(p, s3)
             s5 == IF s4.err # Nil THEN s4 ELSE RecurseExtends(files, p, s4, depth)
             s6 == IF s5.err # Nil THEN s5
                   ELSE RecurseIncludes(files, p, p.Includes, s5, depth)
             s7 == IF s6.err # Nil THEN s6 ELSE AppendBody(p, s6)
         IN  Return(s7)

\* -------------------------------------------------------------------- Load

\* Mutant: only the pushes of the entry point itself are looked at.
MissingStack_OwnPushesOnly(f, ctx) ==
    LET missing == {s \in DOMAIN f.PushStacks : s \notin DOMAIN ctx.Stacks}
    IN  IF missing = {} THEN Nil
        ELSE Errorf("missing stack", f.Name, CHOOSE s \in missing : TRUE, "")

\* for stackName := range ctx.PushStacks: the first pushed-to stack that no
\* visited file declared, as the error Load returns; Nil when there is none.
MissingStack(f, ctx) ==
    LET missing == {s \in DOMAIN ctx.PushStacks : s \notin DOMAIN ctx.Stacks}
    IN  IF missing = {} THEN Nil
        ELSE Errorf("missing stack", f.Name, CHOOSE s \in missing : TRUE, "")

\* One define block per registered yield that no section filled, holding
\* the default of the yield.
RECURSIVE DefaultYieldLoop(_, _)
DefaultYieldLoop(ctx, names) ==
    IF names = << >> THEN << >>
    ELSE (IF Head(names) \notin ctx.FilledYields
          THEN <<DefineItem(yieldNamePrefix, Head(names),
                            ctx.Yields[Head(names)].Default)>>
          ELSE << >>)
         \o DefaultYieldLoop(ctx, Tail(names))

\* Mutant: a default block is written for the filled names too.
buildDefaultYieldContent_IgnoresFilled(ctx) ==
    DefaultYieldLoop([ctx EXCEPT !.FilledYields = {}],
                     KeysInOrder(DOMAIN ctx.Yields))

\* Mutant: no block is written for a yield whose default is empty.
buildDefaultYieldContent_SkipsEmpty(ctx) ==
    DefaultYieldLoop([ctx EXCEPT !.FilledYields =
                         @ \cup {n \in DOMAIN ctx.Yields :
                                    ctx.Yields[n].Default = << >>}],
                     KeysInOrder(DOMAIN ctx.Yields))

buildDefaultYieldContent(ctx) ==
    DefaultYieldLoop(ctx, KeysInOrder(DOMAIN ctx.Yields))


\* template.New(name).Funcs(e.FuncMap).Parse(tmplText) of html/template, as
\* far as the shape of the text decides it: a define inside the body of a
\* define is a parse error, and so is a second definition of a name whose
\* first definition is not empty.
ParseError(name, text) ==
    IF \E i \in 1..Len(text) :
          /\ text[i].k = "define"
          /\ \E j \in 1..Len(text[i].body) : text[i].body[j].k = "define"
    THEN Errorf("template: unexpected define", name, "", "")
    ELSE IF \E i, j \in 1..Len(text) :
          /\ i < j
          /\ text[i].k = "define" /\ text[j].k = "define"
          /\ text[i].ns = text[j].ns /\ text[i].name = text[j].name
          /\ text[i].body # << >> /\ text[j].body # << >>
    THEN Errorf("template: multiple definition", name, "", "")
    ELSE Nil

\* The *template.Template that Parse returns: nil with an error, else the
\* template parsed from the text that debugTemplates holds.
Template(text) == "template"
NilTemplate == "nil"

VARIABLES
    parsedFiles,     \* e.parsedFiles: logical name -> ParsedFile
    pc,              \* where Load is: "compile", "returned", "crashed"
    todo,            \* the entries of parsedFiles the compile loop has yet to visit
    resolved,        \* what f.ToTemplateString(ctx) returned, per entry point
                     \* visited by the loop, with ctx as the call left it (for
                     \* a call that never returns: the "stack overflow" marker
                     \* and ctx as the recursion left it)
    debugTemplates,  \* e.debugTemplates: name -> composed text
    templates,       \* e.templates: name -> parsed template
    loadErr          \* the error Load returned (Nil: none)

VARIABLES
    fsys,            \* e.fs: the template files on disk, path -> content and
                     \* modification time
    now,             \* time.Now().UnixMilli()
    lastCompileTime, \* e.lastCompileTime
    norm             \* a name under normalization: the build, the raw name
                     \* and the results of the calls made on it so far

VARIABLES
    rendering        \* the e.Render call of a request handler running next
                     \* to Load: where it is, the entry it renders, the
                     \* templates map as it was when its lookup began, and
                     \* what the call came to

\* What the compile loop of Load neither reads nor writes.
outside == <<fsys, now, lastCompileTime, norm, rendering>>

vars == <<parsedFiles, pc, todo, resolved, debugTemplates, templates, loadErr,
          fsys, now, lastCompileTime, norm, rendering>>

\* No Render call is running.
NoRender == [pc |-> "idle", entry |-> "", seen |-> << >>, result |-> ""]

\* ------------------------------------------------------------ files tables

\* The lists of @include targets one file may hold.
IncludeLists == UNION {[1..n -> Targets] : n \in 0..MaxEdges}

\* Up to renaming, a table with at most two files that extend or include
\* has them named "a" and "b", and "a" alone if there is one.
EdgeFiles == {"a", "b"}

Edges(e, inc, f) == (IF e[f] = "" THEN 0 ELSE 1) + Len(inc[f])

\* The sum of w over the files of the table.
Total(w) == w["a"] + w["b"] + w["c"]

Least(m, n) == IF m <= n THEN m ELSE n

\* A number for the directives of one file other than its edges.  Two files
\* without edges can swap names, so of two such files the one with the
\* larger number is given the earlier name.
Shape(sec, yld, stk, npush) ==
    Cardinality(sec)
    + 2 * Cardinality({n \in YieldNames : yld[n] = "plain"})
    + 4 * Cardinality({n \in YieldNames : yld[n] = "default"})
    + 6 * Cardinality(stk)
    + 12 * npush["scripts"]

Init ==
    \E e \in [EdgeFiles -> {""} \cup Targets], inc \in [EdgeFiles -> IncludeLists] :
      LET edges == Edges(e, inc, "a") + Edges(e, inc, "b") IN
      /\ edges <= MaxEdges
      /\ Edges(e, inc, "b") > 0 => Edges(e, inc, "a") > 0
      /\ \E sec \in [FileNames -> SUBSET YieldNames] :
         LET nsec == edges + Total([f \in FileNames |-> Cardinality(sec[f])]) IN
         /\ nsec <= MaxDirectives
         /\ \E yld \in [FileNames -> [YieldNames -> {"none", "plain", "default"}]] :
            LET nyld == nsec + Total([f \in FileNames |->
                           Cardinality({n \in YieldNames : yld[f][n] # "none"})]) IN
            /\ nyld <= MaxDirectives
            /\ \E stk \in [FileNames -> SUBSET StackNames] :
               LET nstk == nyld + Total([f \in FileNames |-> Cardinality(stk[f])]) IN
               /\ nstk <= MaxDirectives
               /\ \E npush \in [FileNames -> [StackNames ->
                                  0..Least(MaxPush, MaxDirectives - nstk)]] :
                  /\ nstk + Total([f \in FileNames |-> npush[f]["scripts"]])
                        <= MaxDirectives
                  /\ Edges(e, inc, "b") = 0 =>
                        Shape(sec["b"], yld["b"], stk["b"], npush["b"])
                          >= Shape(sec["c"], yld["c"], stk["c"], npush["c"])
                  /\ Edges(e, inc, "a") = 0 =>
                        Shape(sec["a"], yld["a"], stk["a"], npush["a"])
                          >= Shape(sec["b"], yld["b"], stk["b"], npush["b"])
                  /\ parsedFiles =
                       [f \in FileNames |->
                          NewParsedFile(f,
                                        IF f \in EdgeFiles THEN e[f] ELSE "",
                                        IF f \in EdgeFiles THEN inc[f] ELSE << >>,
                                        sec[f], yld[f], stk[f], npush[f])]
    /\ pc = "compile"
    /\ todo = FileNames
    /\ resolved = << >>
    /\ debugTemplates = << >>
    /\ templates = << >>
    /\ loadErr = Nil
    /\ fsys = << >>
    /\ now = 0
    /\ lastCompileTime = -1
    /\ rendering = NoRender
    /\ norm = << >>

\* ------------------------------------------------------ the compile loop

\* Mutant: one context serves the whole loop, so an entry point is resolved
\* with what the entry points before it left in it.
Resolve_SharedContext(name) ==
    ToTemplateString(parsedFiles, parsedFiles[name],
                     IF DOMAIN resolved = {} THEN NewCompileContext
                     ELSE [resolved[CHOOSE e \in DOMAIN resolved : TRUE].ctx
                              EXCEPT !.Visited = << >>],
                     1)

\* f.ToTemplateString(ctx) on a fresh context, for the entry point `name`.
Resolve(name) ==
    ToTemplateString(parsedFiles, parsedFiles[name], NewCompileContext, 1)

\* The text Load hands to the template engine for an entry point whose
\* resolution r has no error: the resolver's text and the default blocks.
TmplText(r) == r.text \o buildDefaultYieldContent(r.ctx)

\* The error that ends the loop iteration of entry point `name`, Nil when
\* the entry point compiles.
CompileError(name, r) ==
    IF r.err # Nil THEN r.err
    ELSE IF MissingStack(parsedFiles[name], r.ctx) # Nil
    THEN MissingStack(parsedFiles[name], r.ctx)
    ELSE ParseError(name, TmplText(r))

\* The resolution never returns: the recursion exhausts the stack and the
\* process dies.
CompileCrashes(name, r) ==
    /\ r.err.kind = "stack overflow"
    /\ resolved' = MapSet(resolved, name, r)
    /\ pc' = "crashed"
    /\ todo' = todo \ {name}
    /\ UNCHANGED <<parsedFiles, debugTemplates, templates, loadErr>>

\* Mutant: the loop notes the error and goes on with the next entry point.
CompileFails_Continues(name, r) ==
    /\ r.err.kind # "stack overflow"
    /\ \/ r.err # Nil
       \/ MissingStack(parsedFiles[name], r.ctx) # Nil
    /\ resolved' = MapSet(resolved, name, r)
    /\ loadErr' = CompileError(name, r)
    /\ todo' = todo \ {name}
    /\ UNCHANGED <<parsedFiles, pc, debugTemplates, templates>>

\* ToTemplateString or the missing-stack check fails: Load returns the error.
CompileFails(name, r) ==
    /\ r.err.kind # "stack overflow"
    /\ \/ r.err # Nil
       \/ MissingStack(parsedFiles[name], r.ctx) # Nil
    /\ resolved' = MapSet(resolved, name, r)
    /\ loadErr' = CompileError(name, r)
    /\ pc' = "returned"
    /\ todo' = todo \ {name}
    /\ UNCHANGED <<parsedFiles, debugTemplates, templates>>

\* The composed text is stored, and the template engine rejects it: the
\* map entry is set to the nil template and Load returns the error.
CompileParseFails(name, r) ==
    /\ r.err = Nil
    /\ MissingStack(parsedFiles[name], r.ctx) = Nil
    /\ ParseError(name, TmplText(r)) # Nil
    /\ resolved' = MapSet(resolved, name, r)
    /\ debugTemplates' = MapSet(debugTemplates, name, TmplText(r))
    /\ templates' = MapSet(templates, name, NilTemplate)
    /\ loadErr' = CompileError(name, r)
    /\ pc' = "returned"
    /\ todo' = todo \ {name}
    /\ UNCHANGED parsedFiles

\* Mutant: draining consumes the pushes of the visited files.
CompileSucceeds_ConsumesPushes(name, r) ==
    /\ CompileError(name, r) = Nil
    /\ resolved' = MapSet(resolved, name, r)
    /\ debugTemplates' = MapSet(debugTemplates, name, TmplText(r))
    /\ templates' = MapSet(templates, name, Template(TmplText(r)))
    /\ todo' = todo \ {name}
    /\ parsedFiles' =
          [f \in DOMAIN parsedFiles |->
              IF f \in Range(r.ctx.Visited)
              THEN [parsedFiles[f] EXCEPT !.PushStacks = << >>]
              ELSE parsedFiles[f]]
    /\ UNCHANGED <<pc, loadErr>>

\* The entry point compiles: its text and its template are stored.
CompileSucceeds(name, r) ==
    /\ CompileError(name, r) = Nil
    /\ resolved' = MapSet(resolved, name, r)
    /\ debugTemplates' = MapSet(debugTemplates, name, TmplText(r))
    /\ templates' = MapSet(templates, name, Template(TmplText(r)))
    /\ todo' = todo \ {name}
    /\ UNCHANGED <<parsedFiles, pc, loadErr>>

\* One iteration of for name, f := range e.parsedFiles.
CompileEntry(name) ==
    /\ pc = "compile"
    /\ name \in todo
    /\ \E r \in {Resolve(name)} :
         \/ CompileCrashes(name, r)
         \/ CompileFails(name, r)
         \/ CompileParseFails(name, r)
         \/ CompileSucceeds(name, r)
    /\ UNCHANGED outside

\* The loop is over: Load returns nil.
LoadReturns ==
    /\ pc = "compile"
    /\ todo = {}
    /\ pc' = "returned"
    /\ UNCHANGED <<parsedFiles, todo, resolved, debugTemplates, templates, loadErr>>
    /\ UNCHANGED outside

\* e.Render(w, entry, data), as far as the templates map decides it: the
\* entry is not loaded, or its template is executed (a nil template, left
\* by a failed Parse, cannot be).
Render(entry) ==
    IF entry \notin DOMAIN templates THEN "template not loaded"
    ELSE IF templates[entry] = NilTemplate THEN "nil template"
    ELSE "executed"

Next ==
    \/ \E name \in FileNames : CompileEntry(name)
    \/ LoadReturns

Spec == Init /\ [][Next]_vars

\* ------------------------------------------------------- name normalization

\* Names are strings of these characters: a word character, the dot, the
\* space, the two separators and a quote.
Chars == {"a", ".", " ", "/", "\\", "'"}
Names == UNION {[1..n -> Chars] : n \in 0..MaxLen}

\* The builds: filepath is the one package whose functions depend on it.
Builds == {"unix", "windows"}

RECURSIVE TrimLeft(_, _)
TrimLeft(n, cutset) ==
    IF n # << >> /\ Head(n) \in cutset THEN TrimLeft(Tail(n), cutset) ELSE n

\* strings.Trim(n, cutset)
Trim(n, cutset) == Reverse(TrimLeft(Reverse(TrimLeft(n, cutset)), cutset))

\* strings.TrimSpace(n): the white space of Chars is the space.
TrimSpace(n) == Trim(n, {" "})

\* os.IsPathSeparator(c)
IsPathSeparator(goos, c) == c = "/" \/ (goos = "windows" /\ c = "\\")

\* filepath.Ext(n): the suffix that begins at the last dot of the last
\* element of the path, empty when that element has no dot.
RECURSIVE ExtFrom(_, _, _)
ExtFrom(goos, n, i) ==
    IF i = 0 \/ IsPathSeparator(goos, n[i]) THEN << >>
    ELSE IF n[i] = "." THEN SubSeq(n, i, Len(n))
    ELSE ExtFrom(goos, n, i - 1)

Ext(goos, n) == ExtFrom(goos, n, Len(n))

\* strings.TrimSuffix(n, suffix)
TrimSuffix(n, suffix) ==
    IF Len(suffix) <= Len(n)
       /\ SubSeq(n, Len(n) - Len(suffix) + 1, Len(n)) = suffix
    THEN SubSeq(n, 1, Len(n) - Len(suffix))
    ELSE n

\* filepath.ToSlash(n): every filepath.Separator becomes a slash.
ToSlash(goos, n) ==
    [i \in 1..Len(n) |-> IF goos = "windows" /\ n[i] = "\\" THEN "/" ELSE n[i]]

normalizeName(goos, n) ==
    LET n1 == TrimSpace(n)
        n2 == Trim(n1, {"'", " "})
        n3 == TrimSuffix(n2, Ext(goos, n2))
    IN  ToSlash(goos, n3)

InitNormalize ==
    /\ \E goos \in Builds, n \in Names : norm = [goos |-> goos, v |-> <<n>>]
    /\ parsedFiles = << >>
    /\ pc = "idle"
    /\ todo = {}
    /\ resolved = << >>
    /\ debugTemplates = << >>
    /\ templates = << >>
    /\ loadErr = Nil
    /\ fsys = << >>
    /\ now = 0
    /\ lastCompileTime = -1
    /\ rendering = NoRender

\* normalizeName is called on the result of the call before (on the raw
\* name the first time).
Normalize ==
    /\ Len(norm.v) <= MaxCalls
    /\ norm' = [norm EXCEPT !.v = Append(@, normalizeName(norm.goos, @[Len(@)]))]
    /\ UNCHANGED <<parsedFiles, pc, todo, resolved, debugTemplates, templates,
                   loadErr, fsys, now, lastCompileTime, rendering>>

NextNormalize == Normalize

SpecNormalize == InitNormalize /\ [][NextNormalize]_vars


\* ---------------------------------------------------------------- parseFile

\* A raw template file is a sequence of pieces: a stretch of plain text or
\* one match of a directive pattern, with the name it captures.  A piece
\* that parseFile has rewritten is a block reference
\* {{ template "<prefix><name>" . }}.  Stretches of white space are not
\* pieces, so the TrimSpace calls on contents have nothing to trim.
Tok(t, n) == [t |-> t, ns |-> "", n |-> n]
Ref(prefix, n) == [t |-> "ref", ns |-> prefix, n |-> n]

\* reSectionStart matches both forms of @section: "sectionI" is the form
\* with inline content, @section('title', 'V'), "section" the block form.
RawTokens ==
    {Tok("text", "T"), Tok("extends", "b"), Tok("yield", "title"),
     Tok("stack", "scripts"), Tok("include", "c"),
     Tok("sectionI", "title"), Tok("section", "title"), Tok("endsection", ""),
     Tok("push", "scripts"), Tok("endpush", "")}
RawFiles == UNION {[1..n -> RawTokens] : n \in 0..MaxRaw}

\* p := &ParsedFile{Name: name, ...} with its empty maps.
NewFile(name) ==
    [Name |-> name, Extends |-> "", Includes |-> {}, Yields |-> << >>,
     Sections |-> << >>, Stacks |-> {}, PushStacks |-> << >>,
     StandaloneBody |-> << >>]
\* The nil *ParsedFile that parseFile returns with an error.
NoFile == [Name |-> ""]

\* The index of the leftmost piece of rest, at or after from, that a
\* pattern for these kinds of piece matches; 0 when there is none.
FirstIndex(rest, kinds, from) ==
    LET at == {i \in from..Len(rest) : rest[i].t \in kinds}
    IN  IF at = {} THEN 0 ELSE CHOOSE i \in at : \A j \in at : i <= j

\* rest[:loc[0]] + rest[end:]: rest without its pieces i..j.
Cut(rest, i, j) == SubSeq(rest, 1, i - 1) \o SubSeq(rest, j + 1, Len(rest))

\* The names the pieces of one kind capture.
Captured(rest, kind) == {rest[i].n : i \in {j \in 1..Len(rest) : rest[j].t = kind}}

\* ReplaceAllStringFunc: every piece of the kind becomes a block reference.
Rewrite(rest, kind, prefix) ==
    [i \in 1..Len(rest) |->
        IF rest[i].t = kind THEN Ref(prefix, rest[i].n) ELSE rest[i]]

\* The first @extends is recorded and removed.
parseExtends(st) ==
    LET i == FirstIndex(st.rest, {"extends"}, 1) IN
    IF i = 0 THEN st
    ELSE [st EXCEPT !.p.Extends = st.rest[i].n, !.rest = Cut(st.rest, i, i)]

\* Every @yield is recorded (the pieces here have no default) and rewritten.
rewriteYields(st) ==
    [st EXCEPT !.p.Yields = [n \in Captured(st.rest, "yield") |-> ""],
               !.rest = Rewrite(st.rest, "yield", yieldNamePrefix)]

\* Every @stack is recorded and rewritten.
rewriteStacks(st) ==
    [st EXCEPT !.p.Stacks = Captured(st.rest, "stack"),
               !.rest = Rewrite(st.rest, "stack", stackNamePrefix)]

\* Every @include is recorded and rewritten.
rewriteIncludes(st) ==
    [st EXCEPT !.p.Includes = Captured(st.rest, "include"),
               !.rest = Rewrite(st.rest, "include", partialNamePrefix)]

\* The loop over reSectionStart: the leftmost @section is cut out, with
\* its inline content or with the text up to the first @endsection after
\* it, until rest has no @section.
RECURSIVE parseSections(_)
parseSections(st) ==
    LET i == FirstIndex(st.rest, {"section", "sectionI"}, 1) IN
    IF i = 0 THEN st
    ELSE IF st.rest[i].t = "sectionI"
    THEN parseSections(
           [st EXCEPT !.p.Sections = MapSet(@, st.rest[i].n, <<Tok("value", st.rest[i].n)>>),
                      !.rest = Cut(st.rest, i, i)])
    ELSE LET j == FirstIndex(st.rest, {"endsection"}, i + 1) IN
         IF j = 0
         THEN [st EXCEPT !.err = Errorf("missing @endsection", st.p.Name, "", "")]
         ELSE parseSections(
                [st EXCEPT !.p.Sections = MapSet(@, st.rest[i].n, SubSeq(st.rest, i + 1, j - 1)),
                           !.rest = Cut(st.rest, i, j)])

\* The loop over rePushStart: the leftmost @push is cut out with the text
\* up to the first @endpush after it, until rest has no @push.
RECURSIVE parsePushes(_)
parsePushes(st) ==
    LET i == FirstIndex(st.rest, {"push"}, 1) IN
    IF i = 0 THEN st
    ELSE LET j == FirstIndex(st.rest, {"endpush"}, i + 1) IN
         IF j = 0
         THEN [st EXCEPT !.err = Errorf("missing @endpush", st.p.Name, "", "")]
         ELSE parsePushes(
                [st EXCEPT !.p.PushStacks =
                               MapSet(@, st.rest[i].n,
                                      Append(MapSlice(@, st.rest[i].n),
                                             SubSeq(st.rest, i + 1, j - 1))),
                           !.rest = Cut(st.rest, i, j)])

\* What parseFile returns for the state its steps end in.
parseResult(st) ==
    IF st.err # Nil THEN [p |-> NoFile, err |-> st.err]
    ELSE [p |-> [st.p EXCEPT !.StandaloneBody = st.rest], err |-> Nil]

\* Mutant: the sections and the pushes are cut out first and the
\* references are rewritten in what is left.
parseFile_BlocksFirst(name, raw) ==
    LET s0 == [p |-> NewFile(name), rest |-> raw, err |-> Nil]
        s1 == parseSections(parseExtends(s0))
        s2 == IF s1.err # Nil THEN s1 ELSE parsePushes(s1)
    IN  parseResult(IF s2.err # Nil THEN s2
                    ELSE rewriteIncludes(rewriteStacks(rewriteYields(s2))))

parseFile(name, raw) ==
    LET s0 == [p |-> NewFile(name), rest |-> raw, err |-> Nil]
        s1 == rewriteIncludes(rewriteStacks(rewriteYields(parseExtends(s0))))
        s2 == parseSections(s1)
        s3 == IF s2.err # Nil THEN s2 ELSE parsePushes(s2)
    IN  parseResult(s3)

\* The entry the table holds for a file that an earlier Load parsed, from
\* the content the file had then.
OldFile(name) == [NewFile(name) EXCEPT !.StandaloneBody = <<Tok("text", "old")>>]

\* Load is about to walk the one file of the directory, modified since the
\* last compile; the table has no entry for it or the entry of an earlier
\* Load.
InitParse ==
    /\ \E raw \in RawFiles : fsys = [f \in {"a"} |-> [raw |-> raw, modTime |-> 1]]
    /\ parsedFiles \in {<< >>, [f \in {"a"} |-> OldFile(f)]}
    /\ pc = "walk"
    /\ todo = {"a"}
    /\ resolved = << >>
    /\ debugTemplates = << >>
    /\ templates = << >>
    /\ loadErr = Nil
    /\ now = 1
    /\ lastCompileTime \in {-1, 0}
    /\ norm = << >>
    /\ rendering = NoRender

\* The walk function of Load on a modified template file: the file is
\* read and parsed; an error ends Load, else the result is stored.
WalkFile(name) ==
    /\ pc = "walk"
    /\ name \in todo
    /\ fsys[name].modTime > lastCompileTime
    /\ LET r == parseFile(name, fsys[name].raw) IN
         IF r.err # Nil
         THEN /\ loadErr' = r.err
              /\ pc' = "returned"
              /\ UNCHANGED parsedFiles
         ELSE /\ parsedFiles' = MapSet(parsedFiles, name, r.p)
              /\ UNCHANGED <<pc, loadErr>>
    /\ todo' = todo \ {name}
    /\ UNCHANGED <<resolved, debugTemplates, templates, fsys, now,
                   lastCompileTime, norm, rendering>>

NextParse == \E name \in {"a"} : WalkFile(name)

SpecParse == InitParse /\ [][NextParse]_vars

\* ------------------------------------------------------------------- reload

\* The template files of the directory, in the order fs.WalkDir visits
\* them (lexical).
WalkOrder == <<"a", "b">>

\* What a template file may hold: a layout, a page that extends "b" (no
\* file when "b" is not in the directory, the page itself when it is "b"),
\* a file with a @section that is never closed.
Sources == {"layout", "page", "open"}

\* e.parseFile(name, raw) for the content src of file `name`.
parseSource(name, src) ==
    LET none == [n \in YieldNames |-> "none"]
        zero == [t \in StackNames |-> 0]
    IN
    IF src = "open"
    THEN [p |-> NoFile, err |-> Errorf("missing @endsection", name, "", "")]
    ELSE [p |-> CASE src = "layout" ->
                      NewParsedFile(name, "", << >>, {},
                                    [n \in YieldNames |-> "default"],
                                    StackNames, zero)
                  [] src = "page" ->
                      NewParsedFile(name, "b", << >>, YieldNames, none, {},
                                    [t \in StackNames |-> 1]),
          err |-> Nil]

\* Mutant: the walk function takes every file for modified.
Unmodified_Never(path) == FALSE

\* stats.ModTime().UnixMilli() <= e.lastCompileTime
Unmodified(path) == fsys[path].modTime <= lastCompileTime

\* fs.WalkDir with the walk function of Load, over the paths still to
\* visit: a file not modified since the last compile is passed over; a
\* modified file sets needCompile and is parsed; a parse error ends the
\* walk, else the parsed file is stored.
RECURSIVE WalkDir(_, _, _)
WalkDir(paths, table, needCompile) ==
    IF paths = << >>
    THEN [parsedFiles |-> table, needCompile |-> needCompile, err |-> Nil]
    ELSE LET path == Head(paths) IN
         IF path \notin DOMAIN fsys \/ Unmodified(path)
         THEN WalkDir(Tail(paths), table, needCompile)
         ELSE LET r == parseSource(path, fsys[path].src) IN
              IF r.err # Nil
              THEN [parsedFiles |-> table, needCompile |-> TRUE, err |-> r.err]
              ELSE WalkDir(Tail(paths), MapSet(table, path, r.p), TRUE)

\* NewEngine(dir) over a directory that holds any of the files.
InitReload ==
    /\ \E present \in SUBSET Range(WalkOrder) :
          \E src \in [present -> Sources] :
             fsys = [f \in present |-> [src |-> src[f], modTime |-> 0]]
    /\ now = 0
    /\ lastCompileTime = -1
    /\ parsedFiles = << >>
    /\ debugTemplates = << >>
    /\ templates = << >>
    /\ pc = "idle"
    /\ todo = {}
    /\ resolved = << >>
    /\ loadErr = Nil
    /\ norm = << >>
    /\ rendering = NoRender

\* A millisecond passes.
Tick ==
    /\ now < MaxClock
    /\ now' = now + 1
    /\ UNCHANGED <<parsedFiles, pc, todo, resolved, debugTemplates, templates,
                   loadErr, fsys, lastCompileTime, norm, rendering>>

\* Somebody writes a template file; Load takes no part in it.
WriteFile(path, src) ==
    /\ IF path \in DOMAIN fsys
       THEN fsys[path] # [src |-> src, modTime |-> now]
       ELSE TRUE
    /\ fsys' = MapSet(fsys, path, [src |-> src, modTime |-> now])
    /\ UNCHANGED <<parsedFiles, pc, todo, resolved, debugTemplates, templates,
                   loadErr, now, lastCompileTime, norm, rendering>>

\* e.Load() from its entry to the end of the walk: the walk fails, or no
\* file was modified and Load returns nil, or the compile loop begins.
LoadWalks ==
    /\ pc = "idle"
    /\ LET w == WalkDir(WalkOrder, parsedFiles, FALSE) IN
         /\ parsedFiles' = w.parsedFiles
         /\ loadErr' = w.err
         /\ IF w.err # Nil \/ ~w.needCompile
            THEN pc' = "returned" /\ todo' = {}
            ELSE pc' = "compile" /\ todo' = DOMAIN w.parsedFiles
    /\ resolved' = << >>
    /\ UNCHANGED <<debugTemplates, templates, fsys, now, lastCompileTime, norm,
                   rendering>>

\* The deferred function of Load: the time of this call becomes the last
\* compile time, whatever Load returns, and the lock is released.
LoadEnds ==
    /\ pc = "returned"
    /\ lastCompileTime' = now
    /\ pc' = "idle"
    /\ UNCHANGED <<parsedFiles, todo, resolved, debugTemplates, templates,
                   loadErr, fsys, now, norm, rendering>>

NextReload ==
    \/ Tick
    \/ \E path \in Range(WalkOrder), src \in Sources : WriteFile(path, src)
    \/ LoadWalks
    \/ \E name \in FileNames : CompileEntry(name)
    \/ LoadReturns
    \/ LoadEnds

SpecReload == InitReload /\ [][NextReload]_vars

\* -------------------------------------------------------------------- serve

\* The names the request handlers render.
Entries == Range(WalkOrder)

\* The Go runtime finds a map read next to a map write and ends the process.
ConcurrentMapAccess == "fatal error: concurrent map read and map write"

\* tmpl, ok := e.templates[entry] on the map `table` and what Render does
\* with it: the entry is not loaded, or its template is executed (a nil
\* template cannot be).
RenderOn(table, entry) ==
    IF entry \notin DOMAIN table THEN "template not loaded"
    ELSE IF table[entry] = NilTemplate THEN "nil template"
    ELSE "executed"

\* What a lookup that began on the map `seen` may come to.  No write fell
\* into it: what the map holds.  Load wrote into the map meanwhile, a data
\* race: the entry as it was, the entry as it is, or the fatal error of
\* the runtime.
Lookups(seen, entry) ==
    IF seen = templates
    THEN {RenderOn(templates, entry)}
    ELSE {RenderOn(seen, entry), RenderOn(templates, entry), ConcurrentMapAccess}

\* A request handler calls e.Render(w, entry, data) and begins the lookup
\* in e.templates.  Render takes no lock: it begins wherever Load is.  The
\* server takes requests once the Load of startup has returned.
RenderBegins(entry) ==
    /\ lastCompileTime >= 0
    /\ pc # "crashed"
    /\ rendering.pc # "reading"
    /\ rendering' = [pc |-> "reading", entry |-> entry, seen |-> templates,
                     result |-> ""]
    /\ UNCHANGED <<parsedFiles, pc, todo, resolved, debugTemplates, templates,
                   loadErr, fsys, now, lastCompileTime, norm>>

\* The lookup ends and Render returns, or the runtime ends the process.
RenderReturns ==
    /\ rendering.pc = "reading"
    /\ \E result \in Lookups(rendering.seen, rendering.entry) :
          /\ rendering' = [pc |-> "returned", entry |-> rendering.entry,
                           seen |-> << >>, result |-> result]
          /\ pc' = IF result = ConcurrentMapAccess THEN "crashed" ELSE pc
    /\ UNCHANGED <<parsedFiles, todo, resolved, debugTemplates, templates,
                   loadErr, fsys, now, lastCompileTime, norm>>

\* The middleware of the example: every request calls Load and, when Load
\* returned nil, its handler calls Render; the requests run concurrently.
NextServe ==
    \/ Tick
    \/ \E path \in Range(WalkOrder), src \in Sources : WriteFile(path, src)
    \/ LoadWalks
    \/ \E name \in FileNames : CompileEntry(name)
    \/ LoadReturns
    \/ LoadEnds
    \/ \E entry \in Entries : RenderBegins(entry)
    \/ RenderReturns

SpecServe == InitReload /\ [][NextServe]_vars

\* ------------------------------------------------ what the properties read

\* Every item of a text, at any nesting depth.
RECURSIVE AllItems(_)
AllItems(text) ==
    UNION {{text[i]} \cup AllItems(text[i].body) : i \in 1..Len(text)}

\* The define blocks of a name in a namespace, at any nesting depth.
Blocks(text, prefix, name) ==
    {d \in AllItems(text) : d.k = "define" /\ d.ns = prefix /\ d.name = name}

\* The extends chain that starts at file f: f, its parent, the parent of
\* that, ..., as far as the table has the files (and once around a cycle).
RECURSIVE ChainFrom(_, _)
ChainFrom(f, seen) ==
    IF f \notin DOMAIN parsedFiles \/ f \in seen THEN << >>
    ELSE <<f>> \o ChainFrom(parsedFiles[f].Extends, seen \cup {f})

ExtendsChain(f) == ChainFrom(f, {})

\* The names a file refers to with @extends and @include.
Referred(f) ==
    (IF parsedFiles[f].Extends = "" THEN {} ELSE {parsedFiles[f].Extends})
    \cup Range(parsedFiles[f].Includes)

\* The files that the extends and include edges reach from the files of S
\* in one step or more.
RECURSIVE BelowAll(_, _)
BelowAll(S, acc) ==
    LET next == ((UNION {Referred(f) : f \in S}) \cap DOMAIN parsedFiles) \ acc
    IN  IF next = {} THEN acc ELSE BelowAll(next, acc \cup next)

Below(f) == BelowAll({f}, {})

\* No file of the table extends or includes itself, directly or not.
CycleFree == \A f \in DOMAIN parsedFiles : f \notin Below(f)

\* How many define blocks of a name in a namespace a text holds, at any
\* nesting depth.
RECURSIVE CountBlocks(_, _, _)
CountBlocks(text, prefix, name) ==
    IF text = << >> THEN 0
    ELSE (IF Head(text).k = "define" /\ Head(text).ns = prefix
             /\ Head(text).name = name
          THEN 1 ELSE 0)
         + CountBlocks(Head(text).body, prefix, name)
         + CountBlocks(Tail(text), prefix, name)

Min(S) == CHOOSE x \in S : \A y \in S : x <= y

\* The files ToTemplateString was called on while entry point e was resolved.
Visited(e) == Range(resolved[e].ctx.Visited)

\* The visited files that declare @yield(n), and those that define section n.
Declarers(e, n) == {f \in Visited(e) : n \in DOMAIN parsedFiles[f].Yields}
Fillers(e, n) == {f \in Visited(e) : n \in DOMAIN parsedFiles[f].Sections}

\* The entry points Load compiled: their template is stored and not nil.
Compiled == {e \in DOMAIN templates : templates[e] # NilTemplate}

\* The resolve call of entry point e has returned (it did not run into the
\* unbounded recursion).
Returned(e) == e \in DOMAIN resolved /\ resolved[e].err.kind # "stack overflow"

\* The resolve call of entry point e has returned and has visited no file
\* twice: e reaches no cycle of extends or include edges and no file along
\* two paths.
Once(e) ==
    /\ Returned(e)
    /\ \A i, j \in 1..Len(resolved[e].ctx.Visited) :
          resolved[e].ctx.Visited[i] = resolved[e].ctx.Visited[j] => i = j

DuplicateKinds == {"duplicate yield name", "duplicate stack name"}
NotFoundKinds == {"not found to extends", "not found to include"}

\* File f declares the name that a duplicate error of this kind is about.
DeclaresDuplicated(f, kind, n) ==
    IF kind = "duplicate yield name" THEN n \in DOMAIN parsedFiles[f].Yields
    ELSE n \in parsedFiles[f].Stacks

\* The first file of a visiting order that is in S.
FirstOf(v, S) == v[Min({i \in 1..Len(v) : v[i] \in S})]

\* Two different visited files declare the same yield or the same stack.
Clash(e) ==
    \E f, g \in Visited(e) :
       /\ f # g
       /\ \/ \E n \in YieldNames : /\ n \in DOMAIN parsedFiles[f].Yields
                                   /\ n \in DOMAIN parsedFiles[g].Yields
          \/ \E n \in StackNames : /\ n \in parsedFiles[f].Stacks
                                   /\ n \in parsedFiles[g].Stacks

\* A visited file extends or includes a name the files table does not have.
RefersToMissing(e) ==
    \E f \in Visited(e) : Referred(f) \ DOMAIN parsedFiles # {}

\* A visited file pushes to a stack that no visited file declares.
Orphan(e) ==
    \E f \in Visited(e) : \E s \in DOMAIN parsedFiles[f].PushStacks :
       \A g \in Visited(e) : s \notin parsedFiles[g].Stacks

\* The loop iteration of entry point e ended Load with a missing-stack error.
MissingStackFailure(e) ==
    /\ pc = "returned"
    /\ e \in DOMAIN resolved /\ e \notin DOMAIN templates
    /\ loadErr.kind = "missing stack" /\ loadErr.file = e

\* -------------------------------------------------------------- properties

\* C1 -- Section precedence.  For every entry point whose text Load has
\* composed and every name N: when a file of the extends chain of the
\* entry point defines section N and a file further up the chain declares
\* @yield(N) or defines section N too, the text has a yield-namespace block
\* N and every such block holds the section content of the file nearest to
\* the entry point (so neither the default of the yield nor the section of
\* the ancestor).
C1_SectionPrecedence ==
    \A e \in DOMAIN debugTemplates : \A n \in YieldNames :
      LET chain == ExtendsChain(e)
          definers == {i \in 1..Len(chain) : n \in DOMAIN parsedFiles[chain[i]].Sections}
      IN  definers # {} =>
            LET i == Min(definers) IN
            (\E j \in (i + 1)..Len(chain) :
                \/ n \in DOMAIN parsedFiles[chain[j]].Yields
                \/ n \in DOMAIN parsedFiles[chain[j]].Sections)
            => /\ Blocks(debugTemplates[e], yieldNamePrefix, n) # {}
               /\ \A d \in Blocks(debugTemplates[e], yieldNamePrefix, n) :
                     d.body = parsedFiles[chain[i]].Sections[n]

\* An entry point is compiled whose own section N overrides the non-empty
\* default of the @yield(N, D) of the layout it extends.
C1_Witness ==
    \E e \in DOMAIN debugTemplates : \E n \in YieldNames :
      LET chain == ExtendsChain(e) IN
      /\ Len(chain) >= 2
      /\ n \in DOMAIN parsedFiles[chain[1]].Sections
      /\ n \in DOMAIN parsedFiles[chain[2]].Yields
      /\ parsedFiles[chain[2]].Yields[n] # << >>

\* C2 -- Default fallback.  For every entry point whose text Load has
\* composed and every yield name N that a visited file declared: when no
\* visited file defines section N, the text has, at top level, a
\* yield-namespace block N whose body is the default of the declaration;
\* when some visited file defines section N, every yield-namespace block N
\* of the text holds a section content, none the default.
C2_DefaultFallback ==
    \A e \in DOMAIN debugTemplates : \A n \in YieldNames :
      LET text == debugTemplates[e] IN
      \A f \in Declarers(e, n) :
        /\ Fillers(e, n) = {} =>
              \E i \in 1..Len(text) :
                 text[i] = DefineItem(yieldNamePrefix, n, parsedFiles[f].Yields[n])
        /\ Fillers(e, n) # {} =>
              \A d \in Blocks(text, yieldNamePrefix, n) :
                 \E g \in Fillers(e, n) : d.body = parsedFiles[g].Sections[n]

\* An entry point is compiled for which a visited file other than itself
\* declares a yield with a non-empty default that no visited file fills.
C2_Witness ==
    \E e \in Compiled : \E n \in YieldNames : \E f \in Declarers(e, n) :
      /\ f # e
      /\ parsedFiles[f].Yields[n] # << >>
      /\ Fillers(e, n) = {}

\* The fragments of file f, in the body of a drain block, come before the
\* fragments of file g.
FragmentsBefore(d, f, g) ==
    \A i, j \in 1..Len(d.body) :
       (d.body[i].file = f /\ d.body[j].file = g) => i < j

\* The drain blocks of a composed text that hold fragments of both files.
DrainsOfBoth(text, f, g) ==
    {d \in AllItems(text) :
        /\ d.k = "define" /\ d.ns = stackNamePrefix
        /\ \E i, j \in 1..Len(d.body) : d.body[i].file = f /\ d.body[j].file = g}

\* C3 as the claim states it -- Stack ordering across files.  When two
\* files of the extends chain of an entry point push to the same stack, the
\* drain block holds the fragments of the file nearer to the entry point
\* before the fragments of its ancestor.
C3_ChildBeforeAncestor ==
    \A e \in DOMAIN debugTemplates :
      LET chain == ExtendsChain(e) IN
      \A i, j \in 1..Len(chain) :
         i < j => \A d \in DrainsOfBoth(debugTemplates[e], chain[i], chain[j]) :
                     FragmentsBefore(d, chain[i], chain[j])

\* C3, amended -- Stack ordering across files.  When two files of the
\* extends chain of an entry point push to the same stack and the drain
\* block holds fragments of both, the fragments of the ancestor come before
\* the fragments of the file nearer to the entry point.
C3_AncestorBeforeChild ==
    \A e \in DOMAIN debugTemplates :
      LET chain == ExtendsChain(e) IN
      \A i, j \in 1..Len(chain) :
         i < j => \A d \in DrainsOfBoth(debugTemplates[e], chain[i], chain[j]) :
                     FragmentsBefore(d, chain[j], chain[i])

\* An entry point is compiled whose drain block holds a fragment of the
\* entry point and a fragment of the layout it extends.
C3_Witness ==
    \E e \in Compiled :
      LET chain == ExtendsChain(e) IN
      /\ Len(chain) >= 2
      /\ DrainsOfBoth(debugTemplates[e], chain[1], chain[2]) # {}

\* C4 as the claim states it -- Push content is never lost.  For every
\* compiled entry point, every fragment that a visited file pushes to a
\* stack is in the body of a drain block of that stack in the composed text.
C4_PushNeverLost ==
    \A e \in Compiled : \A f \in Visited(e) :
      \A s \in DOMAIN parsedFiles[f].PushStacks :
        \A i \in 1..Len(parsedFiles[f].PushStacks[s]) :
          \E d \in Blocks(debugTemplates[e], stackNamePrefix, s) :
             parsedFiles[f].PushStacks[s][i] \in Range(d.body)

\* C5 -- Self-contained output.  For every entry point whose text Load has
\* composed, every block reference that a piece of the text may hold has a
\* block definition of the same namespace and name in that text.
C5_SelfContained ==
    \A e \in DOMAIN debugTemplates :
      \A item \in AllItems(debugTemplates[e]) :
        \A ref \in References(parsedFiles, item) :
           Blocks(debugTemplates[e], ref[1], ref[2]) # {}

\* An entry point is compiled whose text refers to a stack nothing was
\* pushed to and to a yield without default and without section: both
\* blocks are there, empty.
C5_Witness ==
    \E e \in Compiled :
      \E item \in AllItems(debugTemplates[e]) :
        \E r1, r2 \in References(parsedFiles, item) :
          /\ r1[1] = stackNamePrefix /\ r2[1] = yieldNamePrefix
          /\ DefineItem(r1[1], r1[2], << >>) \in AllItems(debugTemplates[e])
          /\ DefineItem(r2[1], r2[2], << >>) \in AllItems(debugTemplates[e])

\* C6 -- Duplicate detection.  Whenever two different files visited in one
\* resolution declare the same yield name or the same stack name, the
\* resolve call returns no text and a duplicate-declaration error; the error
\* names the file being processed (the one visited last), which declares
\* the name, and another file: the one that declared the name first.
C6_DuplicateDetection ==
    \A e \in DOMAIN resolved :
      Clash(e) =>
        LET r == resolved[e]
            v == r.ctx.Visited
        IN  /\ r.err.kind \in DuplicateKinds
            /\ r.text = << >>
            /\ r.err.file = v[Len(v)]
            /\ DeclaresDuplicated(r.err.file, r.err.kind, r.err.name)
            /\ r.err.other # r.err.file
            /\ r.err.other =
                  FirstOf(v, {f \in Visited(e) :
                                DeclaresDuplicated(f, r.err.kind, r.err.name)})

\* A resolution has failed on two sibling includes of the entry point that
\* declare the same yield.
C6_Witness ==
    \E e \in DOMAIN resolved :
      LET r == resolved[e] IN
      /\ r.err.kind = "duplicate yield name"
      /\ r.err.file # e /\ r.err.other # e /\ r.err.file # r.err.other
      /\ {r.err.file, r.err.other} \subseteq Range(parsedFiles[e].Includes)

\* C7 as the claim states it -- Missing reference.  If a file visited during
\* a resolution extends or includes a name that the files table does not
\* have, the resolve call returns no text and an error that names the
\* missing name and the file that refers to it, and no text is composed for
\* the entry point.  Stated for the resolutions that return and visit no
\* file twice.
C7_MissingReference ==
    \A e \in DOMAIN resolved :
      (Once(e) /\ RefersToMissing(e)) =>
        LET r == resolved[e] IN
        /\ r.err.kind \in NotFoundKinds
        /\ r.err.name \notin DOMAIN parsedFiles
        /\ r.err.name \in Referred(r.err.file)
        /\ r.text = << >>
        /\ e \notin DOMAIN debugTemplates

\* C7, amended -- Missing reference.  If a file visited during a resolution
\* extends or includes a name that the files table does not have, no text
\* is composed and no template stored for the entry point; a resolve call
\* that returns returns no text and an error, which is the missing-reference
\* error naming the missing name and the visited file that refers to it, or
\* a duplicate-declaration error that the traversal met first.
C7_MissingReferenceOrEarlierError ==
    \A e \in DOMAIN resolved :
      RefersToMissing(e) =>
        LET r == resolved[e] IN
        /\ e \notin DOMAIN debugTemplates /\ e \notin DOMAIN templates
        /\ Returned(e) =>
             /\ r.text = << >>
             /\ r.err.kind \in NotFoundKinds \cup DuplicateKinds
             /\ r.err.file \in Visited(e)
             /\ r.err.kind = "not found to extends" =>
                   /\ r.err.name = parsedFiles[r.err.file].Extends
                   /\ r.err.name \notin DOMAIN parsedFiles
             /\ r.err.kind = "not found to include" =>
                   /\ r.err.name \in Range(parsedFiles[r.err.file].Includes)
                   /\ r.err.name \notin DOMAIN parsedFiles
             /\ r.err.kind \in DuplicateKinds =>
                   /\ r.err.other \in Visited(e)
                   /\ DeclaresDuplicated(r.err.file, r.err.kind, r.err.name)
                   /\ DeclaresDuplicated(r.err.other, r.err.kind, r.err.name)

\* A resolution has failed on a missing include target that a file other
\* than the entry point refers to.
C7_Witness ==
    \E e \in DOMAIN resolved :
      LET r == resolved[e] IN
      /\ r.err.kind = "not found to include"
      /\ r.err.file # e
      /\ r.err.name \notin DOMAIN parsedFiles

\* C8 as the claim states it -- Orphan push.  Compiling an entry point
\* fails with a missing-stack error if and only if some visited file pushes
\* to a stack that no visited file declares.  Stated for the resolutions
\* that return and visit no file twice.
C8_OrphanPush ==
    \A e \in DOMAIN resolved :
      Once(e) => (MissingStackFailure(e) <=> Orphan(e))

\* C8, amended -- Orphan push.  Compiling an entry point fails with a
\* missing-stack error if and only if its resolve call returns without an
\* error and some visited file pushes to a stack that no visited file
\* declares; the error names the entry point and such a stack.
C8_OrphanPushAfterResolution ==
    \A e \in DOMAIN resolved :
      /\ MissingStackFailure(e) <=> (resolved[e].err = Nil /\ Orphan(e))
      /\ MissingStackFailure(e) =>
            /\ \E f \in Visited(e) : loadErr.name \in DOMAIN parsedFiles[f].PushStacks
            /\ \A g \in Visited(e) : loadErr.name \notin parsedFiles[g].Stacks

\* Load has failed with a missing-stack error for an entry point that does
\* not push itself: a file it extends or includes does.
C8_Witness ==
    \E e \in DOMAIN resolved :
      /\ MissingStackFailure(e)
      /\ DOMAIN parsedFiles[e].PushStacks = {}
      /\ Orphan(e)

\* C9 -- Abort on error.  When a step of a resolution fails, at any
\* recursion depth, the resolve call of the entry point returns the error
\* and an empty text; Load returns that error and composes no text for the
\* entry point.
C9_AbortOnError ==
    \A e \in DOMAIN resolved :
      LET r == resolved[e] IN
      (Returned(e) /\ r.err # Nil) =>
        /\ r.text = << >>
        /\ pc = "returned" /\ loadErr = r.err
        /\ e \notin DOMAIN debugTemplates /\ e \notin DOMAIN templates

\* A resolution has failed in a file other than the entry point, after the
\* entry point had written a section block or a drain block.
C9_Witness ==
    \E e \in DOMAIN resolved :
      LET r == resolved[e] IN
      /\ Returned(e) /\ r.err # Nil
      /\ r.err.file # e
      /\ \/ DOMAIN parsedFiles[e].Sections # {}
         \/ parsedFiles[e].Stacks # {}

\* C10 as the claim states it -- Isolation of failures between entry
\* points.  When Load has returned an error, every entry point whose own
\* compilation has no error has been compiled and can be rendered.  Stated
\* for the loads whose resolutions visit no file twice.
C10_FailureIsolation ==
    (pc = "returned" /\ loadErr # Nil /\ \A e \in DOMAIN resolved : Once(e)) =>
       \A e \in DOMAIN parsedFiles :
          CompileError(e, Resolve(e)) = Nil => Render(e) = "executed"

\* The entry points whose loop iteration failed.
Failed == {e \in DOMAIN resolved : Render(e) # "executed"}

\* C10, amended -- Load stops at the first entry point that fails.  Once an
\* entry point has failed, Load has returned its error; exactly one entry
\* point has failed; every entry point the loop visited before it is
\* compiled and can be rendered; the entry points the loop had not reached
\* are not compiled by this Load and cannot be rendered.
C10_StopsAtFirstFailure ==
    (loadErr # Nil \/ Failed # {}) =>
       /\ pc \in {"returned", "crashed"}
       /\ Cardinality(Failed) = 1
       /\ pc = "returned" => loadErr # Nil
       /\ \A e \in DOMAIN resolved \ Failed :
             Render(e) = "executed" /\ e \in DOMAIN debugTemplates
       /\ \A e \in todo : Render(e) = "template not loaded"

\* Load has returned an error with one entry point compiled before the
\* failure and one entry point, which has no error of its own, not reached.
C10_Witness ==
    /\ pc = "returned" /\ loadErr # Nil
    /\ \E e \in DOMAIN resolved : Render(e) = "executed"
    /\ \E e \in todo : CompileError(e, Resolve(e)) = Nil

\* The fragments of file f in a drain block, in the order of the block.
FragmentsOf(d, f) == SelectSeq(d.body, LAMBDA x : x.k = "push" /\ x.file = f)

\* C11 -- Standalone body.  For every entry point whose text Load has
\* composed and every file F: the text holds the standalone body of F, at
\* any depth, exactly when the resolution visited F and F extends nothing;
\* and at top level the text holds nothing but define blocks and such
\* bodies, so a file that extends a parent contributes blocks only.
C11_StandaloneBody ==
    \A e \in DOMAIN debugTemplates :
      LET text == debugTemplates[e] IN
      /\ \A f \in DOMAIN parsedFiles :
            (\E x \in AllItems(text) : x.k = "body" /\ x.file = f)
            <=> (f \in Visited(e) /\ parsedFiles[f].Extends = "")
      /\ \A i \in 1..Len(text) :
            \/ text[i].k = "define"
            \/ /\ text[i].k = "body"
               /\ parsedFiles[text[i].file].Extends = ""

\* An entry point that extends a layout is compiled: its text holds the
\* body of the layout and not its own.
C11_Witness ==
    \E e \in Compiled :
      /\ parsedFiles[e].Extends \in DOMAIN parsedFiles
      /\ parsedFiles[parsedFiles[e].Extends].Extends = ""
      /\ \E x \in AllItems(debugTemplates[e]) :
            x.k = "body" /\ x.file = parsedFiles[e].Extends
      /\ \A x \in AllItems(debugTemplates[e]) : ~(x.k = "body" /\ x.file = e)

\* C14 -- Fresh context per entry point.  For every entry point E that has
\* been resolved, the context the resolution leaves holds nothing of
\* another resolution: its first visited file is E, every yield and stack
\* it registers is registered to a file this resolution visited and that
\* declares it, every filled name is a section of a visited file, every
\* pushed fragment is a fragment of a visited file, and a duplicate error
\* names two files this resolution visited.
C14_FreshContext ==
    \A e \in DOMAIN resolved :
      LET ctx == resolved[e].ctx
          err == resolved[e].err
      IN
      /\ ctx.Visited # << >> /\ ctx.Visited[1] = e
      /\ \A n \in DOMAIN ctx.Yields :
            /\ ctx.Yields[n].FileName \in Visited(e)
            /\ n \in DOMAIN parsedFiles[ctx.Yields[n].FileName].Yields
      /\ \A s \in DOMAIN ctx.Stacks :
            /\ ctx.Stacks[s] \in Visited(e)
            /\ s \in parsedFiles[ctx.Stacks[s]].Stacks
      /\ \A n \in ctx.FilledYields : Fillers(e, n) # {}
      /\ \A s \in DOMAIN ctx.PushStacks :
            \A i \in 1..Len(ctx.PushStacks[s]) :
               ctx.PushStacks[s][i].file \in Visited(e)
      /\ err.kind \in DuplicateKinds =>
            err.file \in Visited(e) /\ err.other \in Visited(e)

\* Two entry points that extend the same layout are both compiled, and the
\* layout declares a yield and a stack.
C14_Witness ==
    \E e1, e2 \in Compiled : \E l \in DOMAIN parsedFiles :
      /\ e1 # e2 /\ l # e1 /\ l # e2
      /\ parsedFiles[e1].Extends = l /\ parsedFiles[e2].Extends = l
      /\ DOMAIN parsedFiles[l].Yields # {}
      /\ parsedFiles[l].Stacks # {}

\* C16 -- Push order within one file.  For every entry point whose text
\* Load has composed, every stack S and every file F: in every drain
\* block of S the fragments of F stand in the order F pushed them, first
\* push first (once over for every time F was visited before the drain).
C16_PushOrderWithinFile ==
    \A e \in DOMAIN debugTemplates : \A s \in StackNames :
      \A d \in Blocks(debugTemplates[e], stackNamePrefix, s) :
        \A f \in DOMAIN parsedFiles :
          LET fr == FragmentsOf(d, f) IN
          fr # << >> =>
            LET n == Len(parsedFiles[f].PushStacks[s]) IN
            \A k \in 1..Len(fr) :
               fr[k] = parsedFiles[f].PushStacks[s][((k - 1) % n) + 1]

\* An entry point is compiled whose drain block holds two fragments of one
\* file.
C16_Witness ==
    \E e \in Compiled : \E s \in StackNames :
      \E d \in Blocks(debugTemplates[e], stackNamePrefix, s) :
        \E f \in DOMAIN parsedFiles : Len(FragmentsOf(d, f)) >= 2

\* C17 -- Duplicates are per name across files.  When no file extends or
\* includes itself, a resolution that ends with a duplicate yield or
\* duplicate stack error names two different files: a file that declares
\* a yield or a stack and is visited twice does not fail the resolution.
C17_DuplicateAcrossFiles ==
    CycleFree =>
      \A e \in DOMAIN resolved :
        resolved[e].err.kind \in DuplicateKinds =>
          resolved[e].err.file # resolved[e].err.other

\* C18 -- Include wrappers are unique.  When no file extends or includes
\* itself, the text Load composes for an entry point holds at most one
\* include-namespace block of any partial name.
C18_IncludeWrapperUnique ==
    CycleFree =>
      \A e \in DOMAIN debugTemplates : \A q \in FileNames :
        CountBlocks(debugTemplates[e], partialNamePrefix, q) <= 1

\* C19 -- The files table is read-only during resolution.  No iteration
\* of the compile loop, whether its resolution succeeds or fails, and no
\* return of Load changes the files table or a ParsedFile in it.
C19_FilesReadOnly == [][parsedFiles' = parsedFiles]_vars

\* Load has returned after one resolution that succeeded and one that
\* failed, both of which visited one and the same file besides themselves.
C19_Witness ==
    /\ pc = "returned"
    /\ \E e1 \in Compiled : \E e2 \in DOMAIN resolved \ DOMAIN templates :
          (Visited(e1) \cap Visited(e2)) \ {e1, e2} # {}

\* C12 -- Normalization is idempotent.  For every name x and on every
\* build, normalizeName called on normalizeName(x) returns
\* normalizeName(x): the second call changes nothing, also when x has
\* more than one dot or a space before its extension.
C12_NormalizeIdempotent ==
    \A i \in 2..Len(norm.v) - 1 : norm.v[i + 1] = norm.v[i]

\* The raw text of a file on disk.
RawOf(f) == fsys[f].raw

\* The walk function has returned for file f: with an error, or with the
\* parsed file stored.
Rejected(f) == f \in DOMAIN fsys /\ f \notin todo /\ pc = "returned"
Stored(f) == f \in DOMAIN fsys /\ f \notin todo /\ pc = "walk"

\* The table has no entry for f or the entry of the earlier Load.
Untouched(f) == f \in DOMAIN parsedFiles => parsedFiles[f] = OldFile(f)

\* The raw text has a block-form @section with no @endsection after it,
\* a @push with no @endpush after it.
OpenSection(raw) ==
    \E i \in 1..Len(raw) :
       /\ raw[i].t = "section"
       /\ \A j \in (i + 1)..Len(raw) : raw[j].t # "endsection"
OpenPushAt(raw, i) ==
    /\ raw[i].t = "push"
    /\ \A j \in (i + 1)..Len(raw) : raw[j].t # "endpush"

\* The section blocks of a raw text, read from the left: a block runs from
\* a block-form @section to the first @endsection after it, and the next
\* block begins after that.
RECURSIVE SectionSpans(_, _)
SectionSpans(raw, from) ==
    LET i == FirstIndex(raw, {"section"}, from) IN
    IF i = 0 THEN {}
    ELSE LET j == FirstIndex(raw, {"endsection"}, i + 1) IN
         IF j = 0 THEN {}
         ELSE {<<i, j>>} \cup SectionSpans(raw, j + 1)

InSectionBlock(raw, i) ==
    \E sp \in SectionSpans(raw, 1) : sp[1] < i /\ i < sp[2]

MissingEndKinds == {"missing @endsection", "missing @endpush"}

\* The parse error of file f ended Load and left the table as it was.
FailsUnterminated(f) ==
    /\ Rejected(f)
    /\ loadErr.kind \in MissingEndKinds /\ loadErr.file = f
    /\ Untouched(f)

\* C13 -- Unterminated block.  Once the walk function has
\* returned for a file whose raw text has a block-form @section with no
\* later @endsection, or a @push with no later @endpush, Load has
\* returned a parse error that names the file and the table has no new
\* entry for the file.
C13_UnterminatedBlock ==
    \A f \in DOMAIN fsys :
      (/\ f \notin todo
       /\ \/ OpenSection(RawOf(f))
          \/ \E i \in 1..Len(RawOf(f)) : OpenPushAt(RawOf(f), i))
      => FailsUnterminated(f)

\* What the code does guarantee: once the walk function has returned for
\* a file whose raw text has a block-form @section with no later
\* @endsection, or a @push that is inside no section block and has no
\* later @endpush, Load has returned a parse error that names the file and
\* the table has no new entry for the file.
UnterminatedOutsideSection ==
    \A f \in DOMAIN fsys :
      (/\ f \notin todo
       /\ \/ OpenSection(RawOf(f))
          \/ \E i \in 1..Len(RawOf(f)) :
                OpenPushAt(RawOf(f), i) /\ ~InSectionBlock(RawOf(f), i))
      => FailsUnterminated(f)

\* A file that the table has an entry for is rejected for a @push without
\* @endpush that follows a complete section block.
UnterminatedOutsideSection_Reached ==
    \E f \in DOMAIN fsys :
      /\ FailsUnterminated(f)
      /\ f \in DOMAIN parsedFiles
      /\ loadErr.kind = "missing @endpush"
      /\ SectionSpans(RawOf(f), 1) # {}
      /\ \E i \in 1..Len(RawOf(f)) :
            OpenPushAt(RawOf(f), i) /\ ~InSectionBlock(RawOf(f), i)

\* The contents a parsed file stores: of its sections, of its pushes, and
\* its standalone body.
Contents(p) ==
    {p.Sections[n] : n \in DOMAIN p.Sections}
    \cup UNION {Range(p.PushStacks[n]) : n \in DOMAIN p.PushStacks}
    \cup {p.StandaloneBody}

RewrittenKinds == {"yield", "stack", "include"}

\* How many pieces of these kinds a text has.
CountKinds(text, kinds) == Cardinality({i \in 1..Len(text) : text[i].t \in kinds})

\* How many block references the contents of a parsed file hold.
RECURSIVE CountRefsIn(_)
CountRefsIn(texts) ==
    IF texts = << >> THEN 0
    ELSE CountKinds(Head(texts), {"ref"}) + CountRefsIn(Tail(texts))

CountRefs(p) ==
    CountRefsIn([i \in 1..Len(KeysInOrder(DOMAIN p.Sections)) |->
                    p.Sections[KeysInOrder(DOMAIN p.Sections)[i]]])
    + (IF "scripts" \in DOMAIN p.PushStacks
       THEN CountRefsIn(p.PushStacks["scripts"]) ELSE 0)
    + CountKinds(p.StandaloneBody, {"ref"})

\* C20 -- Extraction order.  For every file the walk function has parsed
\* and stored: every @yield, @stack and @include of the raw text, inside
\* a section or push block or not, is recorded in the yields, stacks or
\* includes of the file; no stored section content, pushed fragment or
\* body holds a raw @yield, @stack or @include; and, unless a section
\* was overwritten by a later section of its name, the stored contents
\* hold one block reference for every such directive of the raw text.
C20_ExtractionOrder ==
    \A f \in DOMAIN fsys :
      Stored(f) =>
        LET raw == RawOf(f)
            p == parsedFiles[f]
        IN
        /\ DOMAIN p.Yields = Captured(raw, "yield")
        /\ p.Stacks = Captured(raw, "stack")
        /\ p.Includes = Captured(raw, "include")
        /\ \A c \in Contents(p) : CountKinds(c, RewrittenKinds) = 0
        /\ CountRefs(p) <= CountKinds(raw, RewrittenKinds)
        /\ CountKinds(raw, {"section", "sectionI"}) <= 1 =>
              CountRefs(p) = CountKinds(raw, RewrittenKinds)

\* A file is stored whose raw text has a @yield inside a section block:
\* the yield is recorded and the section content holds its reference.
C20_Witness ==
    \E f \in DOMAIN fsys :
      /\ Stored(f)
      /\ \E i \in 1..Len(RawOf(f)) :
            RawOf(f)[i].t = "yield" /\ InSectionBlock(RawOf(f), i)
      /\ "title" \in DOMAIN parsedFiles[f].Yields
      /\ \E n \in DOMAIN parsedFiles[f].Sections :
            CountKinds(parsedFiles[f].Sections[n], {"ref"}) > 0

\* C15 -- Load recompiles only on change.  A Load call that finds no
\* template file with a modification time later than the last compile
\* time returns nil at the end of its walk, and from its entry to its
\* return, deferred function included, it leaves the parsed-files,
\* templates and debug-templates tables as they were.
C15_NoChangeNoRecompile ==
    [][/\ (/\ pc = "idle" /\ pc' # "idle"
           /\ \A f \in DOMAIN fsys : fsys[f].modTime <= lastCompileTime)
          => /\ pc' = "returned" /\ loadErr' = Nil
             /\ UNCHANGED <<parsedFiles, templates, debugTemplates>>
       /\ pc = "returned"
          => UNCHANGED <<parsedFiles, templates, debugTemplates>>]_vars

\* A Load call returns nil without compiling anything: the tables hold
\* the templates of an earlier call and no file is newer than that call.
C15_Witness ==
    /\ pc = "returned" /\ loadErr = Nil
    /\ resolved = << >>
    /\ Compiled # {}
    /\ lastCompileTime >= 0
    /\ DOMAIN fsys # {}
    /\ \A f \in DOMAIN fsys : fsys[f].modTime <= lastCompileTime

\* The files of the cycle that the extends chain of file f runs into: the
\* chain from the file that the last file of the chain extends, when that
\* is a file of the chain; no file when the chain ends.
CycleOf(f) ==
    LET chain == ExtendsChain(f)
        last == chain[Len(chain)]
    IN  IF chain # << >> /\ parsedFiles[last].Extends \in Range(chain)
        THEN {chain[i] : i \in {j \in 1..Len(chain) :
                 \E k \in 1..j : chain[k] = parsedFiles[last].Extends}}
        ELSE {}

\* File f declares a yield or a stack.
Declares(f) == DOMAIN parsedFiles[f].Yields # {} \/ parsedFiles[f].Stacks # {}

\* How often the resolution of entry point e entered file f.
Visits(e, f) ==
    Cardinality({i \in 1..Len(resolved[e].ctx.Visited) :
                    resolved[e].ctx.Visited[i] = f})

\* C21 -- Extends cycle.  For every entry point E the compile loop has
\* got to and whose extends chain runs into a cycle: Load has no
\* composed text for E, and the resolution either recursed without bound,
\* no file of the cycle declaring a yield or a stack, or failed with a
\* duplicate yield or duplicate stack error that a file raised on its
\* second visit (the error names that file twice).
C21_ExtendsCycle ==
    \A e \in DOMAIN resolved :
      CycleOf(e) # {} =>
        /\ e \notin DOMAIN debugTemplates
        /\ \/ /\ resolved[e].err.kind = "stack overflow"
              /\ \A f \in CycleOf(e) : ~Declares(f)
           \/ /\ resolved[e].err.kind \in DuplicateKinds
              /\ resolved[e].err.file = resolved[e].err.other
              /\ Visits(e, resolved[e].err.file) = 2

\* C21 -- Extends cycle, amended.  For every entry point E the compile
\* loop has got to and whose extends chain runs into a cycle: Load has no
\* composed text for E, and the resolution either recursed without bound,
\* no file of the cycle declaring a yield or a stack, or failed with a
\* duplicate yield or duplicate stack error, on the second visit of a
\* file at the latest.
C21_ExtendsCycleNoText ==
    \A e \in DOMAIN resolved :
      CycleOf(e) # {} =>
        /\ e \notin DOMAIN debugTemplates
        /\ \/ /\ resolved[e].err.kind = "stack overflow"
              /\ \A f \in CycleOf(e) : ~Declares(f)
           \/ /\ resolved[e].err.kind \in DuplicateKinds
              /\ \A f \in Visited(e) : Visits(e, f) <= 2

\* An entry point on a cycle of two files has failed with a duplicate
\* yield error on its own second visit.
C21_Witness ==
    \E e \in DOMAIN resolved :
      /\ Cardinality(CycleOf(e)) = 2
      /\ e \in CycleOf(e)
      /\ resolved[e].err.kind = "duplicate yield name"
      /\ resolved[e].err.file = e /\ resolved[e].err.other = e

\* The files the resolution of entry point e can reach: e and the files
\* below it.
ReachableFrom(e) == {e} \cup Below(e)

\* C22 -- Termination.  For every entry point E the compile loop has got
\* to: when no file that E reaches over extends and include edges extends
\* or includes itself, directly or not, the resolution of E has returned,
\* either with a composed text and no error or with an error and no text.
C22_Termination ==
    \A e \in DOMAIN resolved :
      (\A f \in ReachableFrom(e) : f \notin Below(f)) =>
        /\ resolved[e].err.kind # "stack overflow"
        /\ resolved[e].err # Nil => resolved[e].text = << >>
        /\ resolved[e].err = Nil => resolved[e].text # << >>

\* Over a table without a cycle a resolution has returned a text after
\* three nested calls: the entry point, its parent and the parent of that.
C22_Witness ==
    /\ \E e \in DOMAIN resolved :
          /\ resolved[e].err = Nil
          /\ Cardinality(Visited(e)) = 3
          /\ parsedFiles[e].Extends # ""
          /\ parsedFiles[parsedFiles[e].Extends].Extends # ""
    /\ CycleFree

\* C23 -- Unique yield blocks.  For every entry point Load has compiled
\* and every yield name N, the final text (the text of the resolver and
\* the default blocks appended to it) defines the yield-namespace block N
\* at most once, at any depth.
C23_UniqueYieldBlocks ==
    \A e \in Compiled : \A n \in YieldNames :
      CountBlocks(debugTemplates[e], yieldNamePrefix, n) <= 1

\* An entry point is compiled for which two visited files define the
\* section and a third declares the yield: its text has one block of the
\* name.
C23_Witness ==
    \E e \in Compiled : \E n \in YieldNames :
      /\ Cardinality(Fillers(e, n)) >= 2
      /\ Declarers(e, n) # {}
      /\ CountBlocks(debugTemplates[e], yieldNamePrefix, n) = 1

\* C24 -- No nested definitions.  In the text Load has composed for an
\* entry point, no define block lies inside the body of another define
\* block.
C24_NoNestedDefinitions ==
    \A e \in DOMAIN debugTemplates :
      \A d \in AllItems(debugTemplates[e]) :
        d.k = "define" => \A x \in AllItems(d.body) : x.k # "define"

\* The order of precedence among the files a resolution that starts at
\* file f goes through: f itself, then what its parent goes through, then
\* what each of its partials goes through, in include order.
RECURSIVE Precedence(_, _)
RECURSIVE PrecedenceOfAll(_, _)
Precedence(f, depth) ==
    IF f \notin DOMAIN parsedFiles \/ depth > MaxDepth THEN << >>
    ELSE <<f>>
         \o (IF parsedFiles[f].Extends = "" THEN << >>
             ELSE Precedence(parsedFiles[f].Extends, depth + 1))
         \o PrecedenceOfAll(parsedFiles[f].Includes, depth + 1)
PrecedenceOfAll(names, depth) ==
    IF names = << >> THEN << >>
    ELSE Precedence(Head(names), depth) \o PrecedenceOfAll(Tail(names), depth)

\* C25 -- Section precedence with includes.  For every entry point whose
\* text Load has composed and every section name N that a visited file
\* defines: the text has a yield-namespace block N, and every such block
\* holds the section of the first definer in the order the file itself,
\* its extends ancestors nearest first, its partials in include order
\* (each with its own ancestors and partials); so the block holds the
\* section of a file outside the extends chain of the entry point only
\* when no file of the chain defines N.
C25_SectionPrecedenceWithIncludes ==
    \A e \in DOMAIN debugTemplates : \A n \in YieldNames :
      Fillers(e, n) # {} =>
        LET order == Precedence(e, 1)
            first == FirstOf(order, Fillers(e, n))
        IN
        /\ Blocks(debugTemplates[e], yieldNamePrefix, n) # {}
        /\ \A d \in Blocks(debugTemplates[e], yieldNamePrefix, n) :
              /\ d.body = parsedFiles[first].Sections[n]
              /\ first \notin Range(ExtendsChain(e)) =>
                    \A f \in Range(ExtendsChain(e)) :
                       n \notin DOMAIN parsedFiles[f].Sections

\* A text is composed for an entry point that defines no section N while
\* its parent and its partial both do: the block holds the parent's.
C25_Witness ==
    \E e \in DOMAIN debugTemplates : \E n \in YieldNames :
      LET p == parsedFiles[e] IN
      /\ n \notin DOMAIN p.Sections
      /\ p.Extends \in DOMAIN parsedFiles
      /\ n \in DOMAIN parsedFiles[p.Extends].Sections
      /\ Len(p.Includes) = 1
      /\ p.Includes[1] \in DOMAIN parsedFiles
      /\ p.Includes[1] # p.Extends
      /\ n \in DOMAIN parsedFiles[p.Includes[1]].Sections
      /\ \A d \in Blocks(debugTemplates[e], yieldNamePrefix, n) :
            d.body = parsedFiles[p.Extends].Sections[n]

\* C29 -- A failing Load is atomic for the compiled templates.  When the
\* first Load of an engine, whose templates and debug-templates tables
\* are empty at the call, has returned an error, both tables are empty
\* still: no entry holds the result of a compilation of that Load and no
\* entry holds the nil template of a failed parse.
C29_FailingLoadAtomic ==
    (pc = "returned" /\ loadErr # Nil) =>
       /\ templates = << >>
       /\ debugTemplates = << >>


\* C26 -- A failure is not silently dropped by the next Load.  When the
\* last Load call returned an error (a parse error of a file or a compile
\* error of an entry point) and every template file is older than the
\* last compile time, so that no file was modified since that call
\* returned, the Load call that begins also returns an error.
C26_FailureNotDropped ==
    [][(/\ pc = "idle" /\ pc' # "idle"
        /\ loadErr # Nil
        /\ \A f \in DOMAIN fsys : fsys[f].modTime < lastCompileTime)
       => (pc' = "returned" => loadErr' # Nil)]_vars

\* C27 -- No lost update.  Between two Load calls, the last of which
\* returned nil, every template file that the next walk will pass over (it
\* is older than the last compile time) and whose content parses is in
\* the parsed-files table as the parse of the content it has now: its
\* last modification was picked up, also when it was made while a Load
\* call was running.
C27_NoLostUpdate ==
    (pc = "idle" /\ loadErr = Nil) =>
       \A f \in DOMAIN fsys :
          LET r == parseSource(f, fsys[f].src) IN
          (fsys[f].modTime < lastCompileTime /\ r.err = Nil)
             => /\ f \in DOMAIN parsedFiles
                /\ parsedFiles[f] = r.p


\* C28 -- Load and Render are safe to call concurrently.  While a Render
\* call is in its lookup of the templates map, no step of a Load call
\* writes an entry into the map.
C28_RenderNotDuringWrite ==
    [][rendering.pc = "reading" => templates' = templates]_vars
=============================================================================
